---------------------------- MODULE Spec2Model ----------------------------
(***************************************************************************)
(* Model of programs/dex-ai/src/lib.rs: the two-asset constant-product     *)
(* pool (initialize_pool, swap, compute_constant_product_quote) together   *)
(* with the token accounts and the token program's transfer it calls.      *)
(*                                                                         *)
(* Word width.  The program computes on u64.  TLC's integers are 32 bits   *)
(* wide, so the machine word is modelled with WordBits bits and every      *)
(* operation on it (saturating multiply and add, wrapping subtract,        *)
(* checked add, truncating divide) is written against WordMax; the fee     *)
(* denominator 10_000 and the u16 range of fee_bps keep their real values. *)
(***************************************************************************)
EXTENDS Integers, Sequences, FiniteSets, TLC

VARIABLES
    overflow_checks,  \* build profile: TRUE when arithmetic overflow panics
    pool,             \* the Pool account (NoPool before initialize_pool)
    amount,           \* token account key -> TokenAccount.amount
    call,             \* the last swap call: inputs, entry balances, outcome
    swaps,            \* number of swaps that went through
    qpc,              \* position of the quote harness
    qin,              \* inputs of compute_constant_product_quote
    qout              \* its results for amount_in_1 and amount_in_2

vars == <<overflow_checks, pool, amount, call, swaps, qpc, qin, qout>>

---------------------------------------------------------------------------
(* Bounds *)

WordBits == 30
MaxSwaps == 3

---------------------------------------------------------------------------
(* Machine words *)

\* u64::MAX at the modelled width (written so that no intermediate value
\* exceeds it)
WordMax == 2 * (2 ^ (WordBits - 1) - 1) + 1

\* u16::MAX, the range of fee_bps
U16Max == 65535

\* the literal 10_000u64 of the fee arithmetic
FeeDenominator == 10000

\* u64::saturating_mul
saturating_mul(a, b) ==
    IF a = 0 \/ b = 0 THEN 0
    ELSE IF a > WordMax \div b THEN WordMax
    ELSE a * b

\* u64::saturating_add
saturating_add(a, b) ==
    IF a > WordMax - b THEN WordMax ELSE a + b

\* u64 subtraction in a build without overflow checks: a - b modulo 2^w
wrapping_sub(a, b) ==
    IF a >= b THEN a - b ELSE WordMax - (b - a) + 1

---------------------------------------------------------------------------
(* compute_constant_product_quote *)

Ok(v)  == [tag |-> "Ok", value |-> v, err |-> "None"]
Err(e) == [tag |-> "Err", value |-> 0, err |-> e]
Panic  == [tag |-> "Panic", value |-> 0, err |-> "None"]

\* variant of reserves_ok that forgets reserve_in
reserves_ok_no_reserve_in(reserve_in, reserve_out) == reserve_out > 0

\* require!(reserve_in > 0 && reserve_out > 0, DexError::InvalidAmount)
reserves_ok(reserve_in, reserve_out) == reserve_in > 0 /\ reserve_out > 0

\* (10_000u64 - fee_bps as u64): in range for fee_bps <= 10_000; above that
\* the subtraction overflows, which panics or wraps with the build profile
fee_overflows(fee_bps) == fee_bps > FeeDenominator
fee_multiplier(fee_bps) == wrapping_sub(FeeDenominator, fee_bps)

\* amount_in.saturating_mul(10_000 - fee_bps) / 10_000
amount_in_after_fee(amount_in, fee_bps) ==
    saturating_mul(amount_in, fee_multiplier(fee_bps)) \div FeeDenominator

\* amount_in_after_fee.saturating_mul(reserve_out)
numerator(amount_in, reserve_out, fee_bps) ==
    saturating_mul(amount_in_after_fee(amount_in, fee_bps), reserve_out)

\* variant of denominator that leaves the post-fee input out
denominator_without_input(amount_in, reserve_in, fee_bps) == reserve_in

\* reserve_in.saturating_add(amount_in_after_fee)
denominator(amount_in, reserve_in, fee_bps) ==
    saturating_add(reserve_in, amount_in_after_fee(amount_in, fee_bps))

compute_constant_product_quote(amount_in, reserve_in, reserve_out, fee_bps, checks) ==
    IF ~reserves_ok(reserve_in, reserve_out) THEN Err("InvalidAmount")
    ELSE IF fee_overflows(fee_bps) /\ checks THEN Panic
    ELSE IF denominator(amount_in, reserve_in, fee_bps) = 0 THEN Panic
    ELSE Ok(numerator(amount_in, reserve_out, fee_bps)
                \div denominator(amount_in, reserve_in, fee_bps))

---------------------------------------------------------------------------
(* Quote harness: the inputs are drawn in the initial state, the two steps *)
(* apply compute_constant_product_quote to amount_in_1 and to amount_in_2. *)

QuoteAmounts  == {0, 1, 2, 3, 1000, 10001, WordMax \div FeeDenominator,
                  WordMax \div 2, WordMax - 1, WordMax}
QuoteReserves == {0, 1, 2, 10001, 1000000, WordMax \div 2, WordMax - 1, WordMax}
QuoteFees     == {0, 1, 30, 9999, FeeDenominator, FeeDenominator + 1, U16Max}

NoPool  == [initialized |-> FALSE]
NoCall  == [result |-> "None"]
NoQuote == [tag |-> "None", value |-> 0, err |-> "None"]

InitQuote ==
    /\ overflow_checks \in BOOLEAN
    /\ pool = NoPool
    /\ amount = <<>>
    /\ call = NoCall
    /\ swaps = 0
    /\ qpc = "start"
    /\ qin \in [amount_in_1 : QuoteAmounts, amount_in_2 : QuoteAmounts,
                reserve_in : QuoteReserves, reserve_out : QuoteReserves,
                fee_bps : QuoteFees]
    /\ qin.amount_in_1 <= qin.amount_in_2
    /\ qout = [r1 |-> NoQuote, r2 |-> NoQuote]

QuoteFirst ==
    /\ qpc = "start"
    /\ qpc' = "first"
    /\ qout' = [qout EXCEPT !.r1 = compute_constant_product_quote(
                    qin.amount_in_1, qin.reserve_in, qin.reserve_out,
                    qin.fee_bps, overflow_checks)]
    /\ UNCHANGED <<overflow_checks, pool, amount, call, swaps, qin>>

QuoteSecond ==
    /\ qpc = "first"
    /\ qpc' = "done"
    /\ qout' = [qout EXCEPT !.r2 = compute_constant_product_quote(
                    qin.amount_in_2, qin.reserve_in, qin.reserve_out,
                    qin.fee_bps, overflow_checks)]
    /\ UNCHANGED <<overflow_checks, pool, amount, call, swaps, qin>>

NextQuote == QuoteFirst \/ QuoteSecond

SpecQuote == InitQuote /\ [][NextQuote]_vars

---------------------------------------------------------------------------
(* Token accounts.  Each TokenAccount has a fixed mint and owner and a      *)
(* balance; UA, UB, UC are the user's accounts, VA, VB, VX are accounts     *)
(* owned by the pool (VX holds the third mint, as a vault that does not     *)
(* match the pool's mints).                                                 *)

Accounts == {"UA", "UB", "UC", "VA", "VB", "VX"}

\* TokenAccount.mint
mint == [UA |-> "MA", UB |-> "MB", UC |-> "MC",
         VA |-> "MA", VB |-> "MB", VX |-> "MC"]

\* TokenAccount.owner, the authority the token program accepts for a debit
owner == [UA |-> "user", UB |-> "user", UC |-> "user",
          VA |-> "pool", VB |-> "pool", VX |-> "pool"]

\* token::transfer(CpiContext::new(token_program, Transfer {authority, from,
\* to}), amount): the token program rejects a transfer whose authority is
\* not the owner of `from`, whose accounts hold different mints, whose
\* amount exceeds the balance of `from`, or whose credit overflows `to`.
\* The user signs the transaction; the pool account handed over by
\* pool_signer() is taken to be an authority the token program accepts for
\* the vaults it owns.
transfer_accepted(bal, t) ==
    /\ owner[t.from] = t.authority
    /\ mint[t.from] = mint[t.to]
    /\ bal[t.from] >= t.amount
    /\ (t.from # t.to => bal[t.to] <= WordMax - t.amount)

transfer_apply(bal, t) ==
    IF t.from = t.to THEN bal
    ELSE [bal EXCEPT ![t.from] = @ - t.amount, ![t.to] = @ + t.amount]

---------------------------------------------------------------------------
(* initialize_pool *)

InitVaultsA == {"VA", "VX"}
InitVaultsB == {"VB", "VX"}
InitFees    == {0, 30, FeeDenominator, U16Max}

\* funding of the token accounts before the pool exists; every mint's
\* supply (the sum of its balances) fits the machine word
InitialBalances ==
    { [UA |-> 5000, UB |-> 5000, UC |-> 5000,
       VA |-> 1000000, VB |-> 1000000, VX |-> 1000000],
      [UA |-> 5000, UB |-> 5000, UC |-> 5000,
       VA |-> 1000000, VB |-> 0, VX |-> 0],
      [UA |-> 5000, UB |-> 5000, UC |-> 5000,
       VA |-> 10, VB |-> 1000, VX |-> 1],
      [UA |-> 5000, UB |-> 5000, UC |-> 5000,
       VA |-> WordMax - 5000, VB |-> WordMax - 5000, VX |-> 1] }

Init ==
    /\ overflow_checks \in BOOLEAN
    /\ pool = NoPool
    /\ amount \in InitialBalances
    /\ call = NoCall
    /\ swaps = 0
    /\ qpc = "idle"
    /\ qin = <<>>
    /\ qout = <<>>

\* #[account(init)] creates the pool account once; the handler copies the
\* keys of the accounts it is given and fee_bps into it, unchecked.
initialize_pool(vault_a, vault_b, fee_bps) ==
    /\ ~pool.initialized
    /\ pool' = [initialized |-> TRUE,
                authority |-> "authority",
                mint_a |-> "MA",
                mint_b |-> "MB",
                vault_a |-> vault_a,
                vault_b |-> vault_b,
                fee_bps |-> fee_bps]
    /\ UNCHANGED <<overflow_checks, amount, call, swaps, qpc, qin, qout>>

InitializePool ==
    \E vault_a \in InitVaultsA, vault_b \in InitVaultsB, fee_bps \in InitFees :
        initialize_pool(vault_a, vault_b, fee_bps)

---------------------------------------------------------------------------
(* swap *)

\* let is_a_to_b = ctx.accounts.user_source.mint == pool.mint_a
is_a_to_b(user_source) == mint[user_source] = pool.mint_a

\* variant of src_vault with the sides exchanged
src_vault_reversed(user_source) ==
    IF is_a_to_b(user_source) THEN pool.vault_b ELSE pool.vault_a

\* let (src_vault, dst_vault) = if is_a_to_b {(vault_a, vault_b)} else {..}
src_vault(user_source) ==
    IF is_a_to_b(user_source) THEN pool.vault_a ELSE pool.vault_b
dst_vault(user_source) ==
    IF is_a_to_b(user_source) THEN pool.vault_b ELSE pool.vault_a

\* variant of validate without the amount_in > 0 check
validate_no_amount_check(user_source, user_destination, amount_in) ==
    IF mint[pool.vault_a] # pool.mint_a THEN "InvalidAccount"
    ELSE IF mint[pool.vault_b] # pool.mint_b THEN "InvalidAccount"
    ELSE IF mint[user_destination] #
            (IF is_a_to_b(user_source) THEN pool.mint_b ELSE pool.mint_a)
         THEN "InvalidAccount"
    ELSE "Ok"

\* variant of validate without the vault_b mint check
validate_no_vault_b_check(user_source, user_destination, amount_in) ==
    IF ~(amount_in > 0) THEN "InvalidAmount"
    ELSE IF mint[pool.vault_a] # pool.mint_a THEN "InvalidAccount"
    ELSE IF mint[user_destination] #
            (IF is_a_to_b(user_source) THEN pool.mint_b ELSE pool.mint_a)
         THEN "InvalidAccount"
    ELSE "Ok"

\* the four require! of the validation gate, in the order of the code
validate(user_source, user_destination, amount_in) ==
    IF ~(amount_in > 0) THEN "InvalidAmount"
    ELSE IF mint[pool.vault_a] # pool.mint_a THEN "InvalidAccount"
    ELSE IF mint[pool.vault_b] # pool.mint_b THEN "InvalidAccount"
    ELSE IF mint[user_destination] #
            (IF is_a_to_b(user_source) THEN pool.mint_b ELSE pool.mint_a)
         THEN "InvalidAccount"
    ELSE "Ok"

\* the quote of the call, from the balances of the two vaults at entry
quote_of(user_source, amount_in) ==
    compute_constant_product_quote(amount_in,
        amount[src_vault(user_source)], amount[dst_vault(user_source)],
        pool.fee_bps, overflow_checks)

\* variant of slippage_ok with a strict comparison
slippage_ok_strict(quote_out, min_amount_out) == quote_out > min_amount_out

\* require!(quote_out >= min_amount_out, DexError::SlippageExceeded)
slippage_ok(quote_out, min_amount_out) == quote_out >= min_amount_out

\* the Transfer the user authorizes, and the one the pool authorizes
user_to_vault(user_source, amount_in) ==
    [authority |-> "user", from |-> user_source,
     to |-> src_vault(user_source), amount |-> amount_in]
vault_to_user(user_source, user_destination, quote_out) ==
    [authority |-> "pool", from |-> dst_vault(user_source),
     to |-> user_destination, amount |-> quote_out]

Outcome(result, issued, bal, quote) ==
    [result |-> result, issued |-> issued, amount |-> bal, quote |-> quote]

\* the two token::transfer calls; a rejected transfer ends the call (?) and
\* the runtime discards the effects of the whole transaction
issue_transfers(user_source, user_destination, amount_in, q) ==
    LET t1 == user_to_vault(user_source, amount_in)
        t2 == vault_to_user(user_source, user_destination, q.value)
    IN IF ~transfer_accepted(amount, t1)
       THEN Outcome("TokenError", <<t1>>, amount, q)
       ELSE IF ~transfer_accepted(transfer_apply(amount, t1), t2)
       THEN Outcome("TokenError", <<t1, t2>>, amount, q)
       ELSE Outcome("Ok", <<t1, t2>>,
                    transfer_apply(transfer_apply(amount, t1), t2), q)

\* variant of swap_outcome that checks the slippage after the first transfer
swap_outcome_transfer_first(user_source, user_destination, amount_in, min_amount_out) ==
    LET v == validate(user_source, user_destination, amount_in)
        q == quote_of(user_source, amount_in)
        t1 == user_to_vault(user_source, amount_in)
    IN IF v # "Ok" THEN Outcome(v, <<>>, amount, NoQuote)
       ELSE IF q.tag = "Err" THEN Outcome(q.err, <<>>, amount, q)
       ELSE IF q.tag = "Panic" THEN Outcome("Panic", <<>>, amount, q)
       ELSE IF ~transfer_accepted(amount, t1)
       THEN Outcome("TokenError", <<t1>>, amount, q)
       ELSE IF ~slippage_ok(q.value, min_amount_out)
       THEN Outcome("SlippageExceeded", <<t1>>, amount, q)
       ELSE issue_transfers(user_source, user_destination, amount_in, q)

\* the body of swap: validation gate, quote, slippage check, transfers
swap_outcome(user_source, user_destination, amount_in, min_amount_out) ==
    LET v == validate(user_source, user_destination, amount_in)
        q == quote_of(user_source, amount_in)
    IN IF v # "Ok" THEN Outcome(v, <<>>, amount, NoQuote)
       ELSE IF q.tag = "Err" THEN Outcome(q.err, <<>>, amount, q)
       ELSE IF q.tag = "Panic" THEN Outcome("Panic", <<>>, amount, q)
       ELSE IF ~slippage_ok(q.value, min_amount_out)
       THEN Outcome("SlippageExceeded", <<>>, amount, q)
       ELSE issue_transfers(user_source, user_destination, amount_in, q)

swap(user_source, user_destination, amount_in, min_amount_out) ==
    /\ pool.initialized
    /\ call = NoCall
    /\ swaps < MaxSwaps
    /\ LET o == swap_outcome(user_source, user_destination, amount_in,
                             min_amount_out)
       IN /\ call' = [user_source |-> user_source,
                      user_destination |-> user_destination,
                      amount_in |-> amount_in,
                      min_amount_out |-> min_amount_out,
                      pre |-> amount,
                      result |-> o.result,
                      issued |-> o.issued,
                      quote |-> o.quote]
          /\ amount' = o.amount
          /\ swaps' = IF o.result = "Ok" THEN swaps + 1 ELSE swaps
    /\ UNCHANGED <<overflow_checks, pool, qpc, qin, qout>>

SwapSources      == {"UA", "UB", "UC", "VA"}
SwapDestinations == {"UA", "UB", "UC"}
SwapAmounts      == {0, 1, 1000, 5000, WordMax}

\* minimum outputs around the quote the call computes, and the extremes
MinAmountOuts(user_source, amount_in) ==
    LET q == quote_of(user_source, amount_in).value
    IN {0, q, saturating_add(q, 1), WordMax}

Swap ==
    /\ pool.initialized
    /\ call = NoCall
    /\ \E user_source \in SwapSources, user_destination \in SwapDestinations,
          amount_in \in SwapAmounts :
           \E min_amount_out \in MinAmountOuts(user_source, amount_in) :
               swap(user_source, user_destination, amount_in, min_amount_out)

\* the call returns its Result; the trade request and the account context
\* of the invocation do not outlive it
SwapReturn ==
    /\ call # NoCall
    /\ call' = NoCall
    /\ UNCHANGED <<overflow_checks, pool, amount, swaps, qpc, qin, qout>>

Next == InitializePool \/ Swap \/ SwapReturn

Spec == Init /\ [][Next]_vars

---------------------------------------------------------------------------
(* Unbounded naturals for the properties that are stated over the integers: *)
(* little-endian digit sequences in base BigBase.                           *)

BigBase == 2 ^ 10

RECURSIVE ToBig(_)
ToBig(n) == IF n = 0 THEN <<>> ELSE <<n % BigBase>> \o ToBig(n \div BigBase)

RECURSIVE BigAdd(_, _, _)
BigAdd(x, y, carry) ==
    IF x = <<>> /\ y = <<>>
    THEN (IF carry = 0 THEN <<>> ELSE <<carry>>)
    ELSE LET dx == IF x = <<>> THEN 0 ELSE Head(x)
             dy == IF y = <<>> THEN 0 ELSE Head(y)
             s  == dx + dy + carry
         IN <<s % BigBase>> \o BigAdd(IF x = <<>> THEN <<>> ELSE Tail(x),
                                      IF y = <<>> THEN <<>> ELSE Tail(y),
                                      s \div BigBase)

RECURSIVE BigMulDigit(_, _, _)
BigMulDigit(x, d, carry) ==
    IF x = <<>>
    THEN (IF carry = 0 THEN <<>> ELSE <<carry>>)
    ELSE LET p == Head(x) * d + carry
         IN <<p % BigBase>> \o BigMulDigit(Tail(x), d, p \div BigBase)

RECURSIVE BigMul(_, _)
BigMul(x, y) ==
    IF y = <<>> THEN <<>>
    ELSE BigAdd(BigMulDigit(x, Head(y), 0), <<0>> \o BigMul(x, Tail(y)), 0)

RECURSIVE BigNorm(_)
BigNorm(x) ==
    IF x = <<>> THEN <<>>
    ELSE IF x[Len(x)] = 0 THEN BigNorm(SubSeq(x, 1, Len(x) - 1))
    ELSE x

RECURSIVE BigLeqSameLen(_, _)
BigLeqSameLen(x, y) ==
    IF x = <<>> THEN TRUE
    ELSE IF x[Len(x)] # y[Len(y)] THEN x[Len(x)] < y[Len(y)]
    ELSE BigLeqSameLen(SubSeq(x, 1, Len(x) - 1), SubSeq(y, 1, Len(y) - 1))

BigLeq(x, y) ==
    LET a == BigNorm(x)
        b == BigNorm(y)
    IN IF Len(a) # Len(b) THEN Len(a) < Len(b) ELSE BigLeqSameLen(a, b)

---------------------------------------------------------------------------
(* Properties of the quote (specification SpecQuote) *)

QuoteComputed ==
    /\ qpc # "start"
    /\ qout.r1.tag = "Ok"
    /\ qin.amount_in_1 > 0
    /\ qin.reserve_in > 0
    /\ qin.reserve_out > 0
    /\ qin.fee_bps < FeeDenominator

Q_after_fee   == amount_in_after_fee(qin.amount_in_1, qin.fee_bps)
Q_denominator == denominator(qin.amount_in_1, qin.reserve_in, qin.fee_bps)

\* C7: for every computed quote the post-trade product
\* (reserve_in + amount_in_after_fee) * (reserve_out - output), over the
\* unbounded integers, is at least the pre-trade product
\* reserve_in * reserve_out.
C7_ProductNonDecreasing ==
    QuoteComputed =>
        /\ qout.r1.value <= qin.reserve_out
        /\ BigLeq(BigMul(ToBig(qin.reserve_in), ToBig(qin.reserve_out)),
                  BigMul(BigAdd(ToBig(qin.reserve_in), ToBig(Q_after_fee), 0),
                         ToBig(qin.reserve_out - qout.r1.value)))

\* C8: for fixed reserves and fee_bps < 10_000 and amount_in_1 <= amount_in_2
\* anywhere in the unsigned range, quote(amount_in_1) <= quote(amount_in_2).
C8_QuoteMonotone ==
    ( /\ qpc = "done"
      /\ qin.reserve_in > 0 /\ qin.reserve_out > 0
      /\ qin.fee_bps < FeeDenominator
      /\ qin.amount_in_1 <= qin.amount_in_2
      /\ qout.r1.tag = "Ok" /\ qout.r2.tag = "Ok" )
    => qout.r1.value <= qout.r2.value

\* C10 as stated: for every amount_in > 0 and fee_bps < 10_000 the post-fee
\* input is strictly positive, hence so is the denominator.
C10_AfterFeePositive ==
    QuoteComputed => (Q_after_fee > 0 /\ Q_denominator > 0)

\* C10 as amended: for amount_in > 0 and fee_bps < 10_000 the post-fee input
\* is zero exactly when amount_in * (10_000 - fee_bps) < 10_000; whenever the
\* quote gets past its reserve check the denominator is nevertheless at
\* least reserve_in > 0, so the quote is computed without dividing by zero.
C10_DenominatorPositive ==
    ( /\ qpc # "start"
      /\ qout.r1.tag # "Err"
      /\ qin.amount_in_1 > 0
      /\ qin.fee_bps < FeeDenominator )
    => /\ qout.r1.tag = "Ok"
       /\ Q_denominator >= qin.reserve_in
       /\ Q_denominator > 0
       /\ (Q_after_fee = 0) <=>
            (qin.amount_in_1 <=
                (FeeDenominator - 1) \div (FeeDenominator - qin.fee_bps))

\* a quote computed with a positive input whose post-fee input is zero
C10_Witness ==
    /\ QuoteComputed
    /\ qpc = "done"
    /\ Q_after_fee = 0
    /\ Q_denominator = qin.reserve_in
    /\ qout.r1.value = 0

---------------------------------------------------------------------------
(* Properties of swap (specification Spec).  They are stated on the record  *)
(* of the call in progress: its inputs, the balances at entry (call.pre),   *)
(* its result, the transfers it issued and the balances it leaves.          *)

InCall == call # NoCall

DexErrors == {"InvalidAmount", "InvalidAccount", "SlippageExceeded"}

\* direction, vault sides and output mint as the specification words them
C_AToB      == mint[call.user_source] = pool.mint_a
C_SrcVault  == IF C_AToB THEN pool.vault_a ELSE pool.vault_b
C_DstVault  == IF C_AToB THEN pool.vault_b ELSE pool.vault_a
C_OutMint   == IF C_AToB THEN pool.mint_b ELSE pool.mint_a

C_AccountMismatch ==
    \/ mint[pool.vault_a] # pool.mint_a
    \/ mint[pool.vault_b] # pool.mint_b
    \/ mint[call.user_destination] # C_OutMint

C_GatePasses == call.amount_in > 0 /\ ~C_AccountMismatch

C_ReservesPositive == call.pre[C_SrcVault] > 0 /\ call.pre[C_DstVault] > 0

\* the call got through the gate, computed a quote and met the minimum
C_PassesAllChecks ==
    /\ InCall
    /\ C_GatePasses
    /\ C_ReservesPositive
    /\ call.quote.tag = "Ok"
    /\ call.quote.value >= call.min_amount_out

C_FirstTransfer ==
    [authority |-> "user", from |-> call.user_source, to |-> C_SrcVault,
     amount |-> call.amount_in]

C_SecondTransfer ==
    [authority |-> "pool", from |-> C_DstVault, to |-> call.user_destination,
     amount |-> compute_constant_product_quote(call.amount_in,
                    call.pre[C_SrcVault], call.pre[C_DstVault],
                    pool.fee_bps, overflow_checks).value]

\* C1: a call that ends in InvalidAmount, InvalidAccount or
\* SlippageExceeded has issued no transfer and leaves every balance as it
\* was at entry.
C1_ErrorsHaveNoEffects ==
    (InCall /\ call.result \in DexErrors) =>
        (call.issued = <<>> /\ amount = call.pre)

\* a slippage rejection of a trade the user could have funded
C1_Witness ==
    /\ InCall
    /\ call.result = "SlippageExceeded"
    /\ owner[call.user_source] = "user"
    /\ mint[call.user_source] = mint[C_SrcVault]
    /\ call.pre[call.user_source] >= call.amount_in
    /\ call.issued = <<>>
    /\ amount = call.pre

\* the scenario of the specification: both reserves 1_000_000, fee 30,
\* 1000 in
C_Scenario ==
    /\ InCall
    /\ C_GatePasses
    /\ call.pre[C_SrcVault] = 1000000
    /\ call.pre[C_DstVault] = 1000000
    /\ pool.fee_bps = 30
    /\ call.amount_in = 1000

C_SlippageRejection ==
    /\ (call.result = "SlippageExceeded")
          <=> (call.quote.value < call.min_amount_out)
    /\ (call.min_amount_out = call.quote.value + 1) =>
          (call.result = "SlippageExceeded" /\ call.issued = <<>>)
    /\ C_Scenario => call.quote.value = 996

C_PaidOut ==
    /\ call.result = "Ok"
    /\ amount[call.user_destination] =
          call.pre[call.user_destination] + call.quote.value

C3_TwoTransfers_AsStated ==
    C_PassesAllChecks => call.issued = <<C_FirstTransfer, C_SecondTransfer>>

\* C3 as amended: a swap that passes all checks issues the user's transfer
\* first and, only if the token program accepts it, the pool's transfer
\* second; a swap that succeeds has issued exactly these two, in this order.
C3_TwoTransfers ==
    C_PassesAllChecks =>
        /\ Len(call.issued) \in {1, 2}
        /\ call.issued[1] = C_FirstTransfer
        /\ Len(call.issued) = 2 => call.issued[2] = C_SecondTransfer
        /\ Len(call.issued) = 1 =>
              (call.result = "TokenError"
                 /\ ~transfer_accepted(call.pre, C_FirstTransfer))
        /\ call.result = "Ok" => Len(call.issued) = 2

\* a B-to-A swap that went through: into vault_b, out of vault_a
C3_Witness ==
    /\ C_PassesAllChecks
    /\ call.result = "Ok"
    /\ ~C_AToB
    /\ call.issued = <<C_FirstTransfer, C_SecondTransfer>>
    /\ call.issued[1].to = pool.vault_b
    /\ call.issued[2].from = pool.vault_a
    /\ call.issued[2].amount > 0

C5_FeeBelowDenominator ==
    (InCall /\ (call.quote.tag = "Ok" \/ call.issued # <<>>)) =>
        pool.fee_bps < FeeDenominator

\* C6: balances never go negative, and for every swap that passes all
\* checks on a pool with fee_bps < 10_000 the quote does not exceed the
\* destination-side vault's balance at entry.
C6_QuoteWithinReserve ==
    /\ \A a \in DOMAIN amount : amount[a] >= 0 /\ amount[a] <= WordMax
    /\ (C_PassesAllChecks /\ pool.fee_bps < FeeDenominator) =>
          call.quote.value <= call.pre[C_DstVault]

\* a passing swap whose fee multiplication and denominator both saturate
C6_Witness ==
    /\ C_PassesAllChecks
    /\ pool.fee_bps < FeeDenominator
    /\ call.amount_in > WordMax \div (FeeDenominator - pool.fee_bps)
    /\ call.pre[C_SrcVault] >
          WordMax - amount_in_after_fee(call.amount_in, pool.fee_bps)
    /\ call.quote.value > 0
    /\ call.quote.value <= call.pre[C_DstVault]

\* C9: the call fails with InvalidAmount exactly when amount_in = 0, or
\* amount_in > 0, the account checks pass and a vault of the trade is
\* empty; in both cases no transfer is issued.
C9_InvalidAmountExact ==
    InCall =>
        /\ (call.result = "InvalidAmount") <=>
              \/ call.amount_in = 0
              \/ (C_GatePasses /\ ~C_ReservesPositive)
        /\ call.result = "InvalidAmount" => call.issued = <<>>

\* amount_in = 0 against a pool whose vault_a has the wrong mint
C9_Witness ==
    /\ InCall
    /\ call.amount_in = 0
    /\ mint[pool.vault_a] # pool.mint_a
    /\ call.result = "InvalidAmount"
    /\ call.issued = <<>>

=============================================================================
